---- MODULE Spec2Model ----
(***************************************************************************)
(* Model of src/notes/base.ts of ObsidianAnkiBridge: the per-note          *)
(* configuration parser (ParseConfig.fromResult) and the note entity       *)
(* (NoteBase) with its field mapping, deck resolver, tag resolver and the  *)
(* file-rewrite decision.                                                  *)
(*                                                                         *)
(* Encoding of JavaScript values:                                          *)
(*   - an optional value (x?: T) is <<>> when undefined and <<v>> when     *)
(*     set to v;                                                           *)
(*   - a string the code takes apart (a tag, a path, a deck name) is the   *)
(*     sequence of its characters, "" being <<>>;                          *)
(*   - a string the code only passes on or compares (a field value) is a   *)
(*     TLA+ string.                                                        *)
(***************************************************************************)
EXTENDS Integers, Sequences, FiniteSets, TLC

VARIABLES settings, fileCache, note, call, arg, ret, cycles

vars == <<settings, fileCache, note, call, arg, ret, cycles>>

Undefined == <<>>

Some(v) == <<v>>

----------------------------------------------------------------------------
(* Bounds of the enumerated inputs.                                        *)

MaxCacheTags == 2

MaxConfigTags == 2

MaxMaps == 2

MaxEntries == 2

MaxCycles == 2

----------------------------------------------------------------------------
(* Sequences of length at most n over S.                                   *)

SeqUpTo(S, n) == UNION {[1..k -> S] : k \in 0..n}

(* Array.prototype.indexOf: the first index holding x, 0 when there is     *)
(* none (JavaScript's -1, with indices shifted by one).                    *)
IndexOf(s, x) ==
    IF \E i \in 1..Len(s) : s[i] = x
    THEN CHOOSE i \in 1..Len(s) : s[i] = x /\ \A j \in 1..(i - 1) : s[j] # x
    ELSE 0

(* String.prototype.replace(pat, rep) with a string pattern of one         *)
(* character: only the first occurrence is replaced.                       *)
ReplaceFirst(s, pat, rep) ==
    LET i == IndexOf(s, pat)
    IN  IF i = 0 THEN s
        ELSE SubSeq(s, 1, i - 1) \o rep \o SubSeq(s, i + 1, Len(s))

(* String.prototype.replace(/pat/g, rep), and split(pat).join(rep), for a  *)
(* pattern of one character: every occurrence is replaced.                 *)
RECURSIVE ReplaceAll(_, _, _)
ReplaceAll(s, pat, rep) ==
    IF s = <<>> THEN <<>>
    ELSE (IF Head(s) = pat THEN rep ELSE <<Head(s)>>) \o ReplaceAll(Tail(s), pat, rep)

(* x || dflt for an optional array: the array when set, else dflt.         *)
OrElse(opt, dflt) == IF opt = Undefined THEN dflt ELSE opt[1]

----------------------------------------------------------------------------
(* The note and the plugin settings outside the part a specification       *)
(* enumerates.                                                             *)

DefaultConfig == [deck |-> Undefined, tags |-> Undefined, enabled |-> Undefined]

DefaultFile == [path |-> <<"n">>, parent |-> <<"/">>]

DefaultFields == [Frontlike |-> Some("q"), Backlike |-> Some("a")]

DefaultText == [id |-> Undefined, fields |-> DefaultFields, config |-> DefaultConfig,
                isCloze |-> FALSE, layout |-> "canonical"]

DefaultNote ==
    [id |-> Undefined, fields |-> DefaultFields, file |-> DefaultFile,
     sourceText |-> DefaultText, config |-> DefaultConfig, isCloze |-> FALSE]

DefaultSettings ==
    [inheritDeck |-> Undefined, inheritTags |-> FALSE, fallbackDeck |-> <<"D">>,
     tagInAnki |-> <<"o">>, defaultDeckMaps |-> <<>>]

----------------------------------------------------------------------------
(* Tag resolution: NoteBase.getTags                                        *)

(* tag.replace('#', '')                                                    *)
StripHash(tag) == ReplaceFirst(tag, "#", <<>>)

(* tag.replace('/', '::') in place of the global pattern: only the first   *)
(* separator of a nested tag is converted.                                 *)
ToAnkiHierarchyFirstOnly(tag) == ReplaceFirst(tag, "/", <<":", ":">>)

(* tag.replace(/\//g, '::')                                                *)
ToAnkiHierarchy(tag) == ReplaceAll(tag, "/", <<":", ":">>)

(* tags.filter((item, index) => tags.indexOf(item) === index), from index  *)
(* i on.                                                                   *)
RECURSIVE FilterFirstSeen(_, _)
FilterFirstSeen(tags, i) ==
    IF i > Len(tags) THEN <<>>
    ELSE (IF IndexOf(tags, tags[i]) = i THEN <<tags[i]>> ELSE <<>>)
             \o FilterFirstSeen(tags, i + 1)

FilterDuplicates(tags) == FilterFirstSeen(tags, 1)

(* cache is what metadataCache.getFileCache(file) gave: Undefined for      *)
(* null, else Some(t) with t what getAllTags(cache) gives: Undefined for   *)
(* null, else Some(the tags).                                              *)
getTags(n, s, cache) ==
    IF s.inheritTags = TRUE
    THEN IF cache # Undefined /\ cache[1] # Undefined
         THEN LET tags0 == cache[1][1]
                  tags1 == [i \in 1..Len(tags0) |-> StripHash(tags0[i])]
                  tags2 == [i \in 1..Len(tags1) |-> ToAnkiHierarchy(tags1[i])]
                  tags3 == tags2 \o OrElse(n.config.tags, <<>>)
                  tags4 == FilterDuplicates(tags3)
              IN  <<s.tagInAnki>> \o tags4
         ELSE <<s.tagInAnki>> \o OrElse(n.config.tags, <<>>)
    ELSE <<s.tagInAnki>> \o OrElse(n.config.tags, <<>>)

(* What getAllTags reports for a file: every tag with its leading '#',     *)
(* nested tags with '/' between the levels.                                *)
CacheTagValues ==
    { <<"#", "e">>, <<"#", "o">>, <<"#", "B", "/", "C">>,
      <<"#", "B", "/", "C", "/", "e">> }

(* Tags a note's configuration block may list.                             *)
ConfigTagValues ==
    { <<"e">>, <<"o">>, <<"B", ":", ":", "C">> }

FileCaches ==
    {Undefined, Some(Undefined)}
        \cup {Some(Some(t)) : t \in SeqUpTo(CacheTagValues, MaxCacheTags)}

ConfigTags == {Undefined} \cup {Some(t) : t \in SeqUpTo(ConfigTagValues, MaxConfigTags)}

InitTags ==
    /\ settings \in {[DefaultSettings EXCEPT !.inheritTags = b] : b \in BOOLEAN}
    /\ fileCache \in FileCaches
    /\ note \in {[DefaultNote EXCEPT !.config.tags = t] : t \in ConfigTags}
    /\ call = "none"
    /\ arg = <<>>
    /\ ret = <<>>
    /\ cycles = 0

GetTags ==
    /\ call' = "getTags"
    /\ ret' = getTags(note, settings, fileCache)
    /\ UNCHANGED <<settings, fileCache, note, arg, cycles>>

NextTags == GetTags

SpecTags == InitTags /\ [][NextTags]_vars

----------------------------------------------------------------------------
(* Claims about tag resolution, checked under SpecTags.                    *)

Occurrences(s, x) == Cardinality({i \in 1..Len(s) : s[i] = x})

NoRepeat(s) == \A i, j \in 1..Len(s) : i # j => s[i] # s[j]

(* r is s with every later repeat removed and the first-seen order kept.   *)
IsFirstSeenDedupOf(r, s) ==
    /\ NoRepeat(r)
    /\ {r[i] : i \in 1..Len(r)} = {s[i] : i \in 1..Len(s)}
    /\ \A i, j \in 1..Len(r) : i < j => IndexOf(s, r[i]) < IndexOf(s, r[j])

(* a is s with every '/' turned into the two characters '::' and every     *)
(* other character kept: Offset[i] is where the image of s[i] ends in a.   *)
IsHierarchyOf(a, s) ==
    LET Width(i) == IF s[i] = "/" THEN 2 ELSE 1
        Offset[i \in 0..Len(s)] == IF i = 0 THEN 0 ELSE Offset[i - 1] + Width(i)
    IN  /\ Len(a) = Offset[Len(s)]
        /\ \A i \in 1..Len(s) :
             IF s[i] = "/"
             THEN a[Offset[i] - 1] = ":" /\ a[Offset[i]] = ":"
             ELSE a[Offset[i]] = s[i]

(* The tag Anki gets for a tag of the cache: the leading '#' dropped and   *)
(* the levels of a nested tag joined by '::'.                              *)
IsAnkiFormOf(a, tag) ==
    /\ tag # <<>> /\ tag[1] = "#"
    /\ IsHierarchyOf(a, Tail(tag))

HasCache == fileCache # Undefined /\ fileCache[1] # Undefined

(* C1: every list getTags returns starts with settings.tagInAnki and holds *)
(* tagInAnki exactly once.                                                 *)
C1_MarkerFirstAndOnce ==
    call = "getTags" =>
        /\ ret[1] = settings.tagInAnki
        /\ Occurrences(ret, settings.tagInAnki) = 1

(* C9: the list getTags returns holds no tag twice, in every mode.         *)
C9_NoTagTwice == call = "getTags" => NoRepeat(ret)

(* C5: with inheritTags true and a tag cache for the file, getTags returns *)
(* tagInAnki followed by the cache tags in Anki form (leading '#' removed, *)
(* every '/' turned into '::') and then config.tags, later repeats in that *)
(* joined list removed and the first-seen order kept.                      *)
C5_InheritedTags ==
    (call = "getTags" /\ settings.inheritTags = TRUE /\ HasCache) =>
        LET cacheTags == fileCache[1][1]
            configTags == OrElse(note.config.tags, <<>>)
            rest == Tail(ret)
        IN  /\ ret # <<>> /\ ret[1] = settings.tagInAnki
            /\ \E anki \in [1..Len(cacheTags) -> {rest[i] : i \in 1..Len(rest)}] :
                 /\ \A i \in 1..Len(cacheTags) : IsAnkiFormOf(anki[i], cacheTags[i])
                 /\ IsFirstSeenDedupOf(rest, anki \o configTags)

(* The example of the specification: cache ["#B/C", "#e"], config.tags     *)
(* ["e"] and tagInAnki "o" give ["o", "B::C", "e"].                        *)
C5_Witness ==
    /\ call = "getTags" /\ settings.inheritTags = TRUE
    /\ fileCache = Some(Some(<< <<"#", "B", "/", "C">>, <<"#", "e">> >>))
    /\ note.config.tags = Some(<< <<"e">> >>)
    /\ settings.tagInAnki = <<"o">>
    /\ ret = << <<"o">>, <<"B", ":", ":", "C">>, <<"e">> >>


----------------------------------------------------------------------------
(* Deck resolution: NoteBase.getDeckName                                   *)

(* getDefaultDeckForFolder(folder, maps) of utils/file: the deck of the    *)
(* first mapping whose folder is the given folder, undefined when no       *)
(* mapping names it.                                                       *)
getDefaultDeckForFolder(folder, maps) ==
    IF \E i \in 1..Len(maps) : maps[i].folder = folder
    THEN LET i == CHOOSE k \in 1..Len(maps) :
                      /\ maps[k].folder = folder
                      /\ \A j \in 1..(k - 1) : maps[j].folder # folder
         IN  Some(maps[i].deck)
    ELSE Undefined

(* if (x) for an optional string: set and not empty.                       *)
Truthy(opt) == opt # Undefined /\ opt[1] # <<>>

(* The same resolver reading `if (inheritDeck)` for `inheritDeck === true` *)
(* and an else for the first branch: an in-note deck wins in every mode.   *)
getDeckNameConfigFirst(n, s) ==
    IF Truthy(n.config.deck) THEN n.config.deck[1]
    ELSE IF s.inheritDeck = Some(TRUE)
         THEN s.fallbackDeck \o <<":", ":">> \o ReplaceAll(n.file.path, "/", <<":", ":">>)
         ELSE s.fallbackDeck

(* The same resolver without the default-deck lookup.                      *)
getDeckNameNoMaps(n, s) ==
    IF s.inheritDeck = Some(FALSE) /\ Truthy(n.config.deck) THEN n.config.deck[1]
    ELSE IF s.inheritDeck = Some(TRUE)
         THEN s.fallbackDeck \o <<":", ":">> \o ReplaceAll(n.file.path, "/", <<":", ":">>)
         ELSE s.fallbackDeck

getDeckName(n, s) ==
    LET resolvedDefaultDeck == getDefaultDeckForFolder(n.file.parent, s.defaultDeckMaps)
    IN  IF s.inheritDeck = Some(FALSE) /\ Truthy(n.config.deck)
        THEN n.config.deck[1]
        ELSE IF s.inheritDeck = Some(FALSE) /\ Truthy(resolvedDefaultDeck)
        THEN resolvedDefaultDeck[1]
        ELSE IF s.inheritDeck = Some(TRUE)
        THEN LET deckName == ReplaceAll(n.file.path, "/", <<":", ":">>)
             IN  s.fallbackDeck \o <<":", ":">> \o deckName
        ELSE s.fallbackDeck

(* Files of the vault: the path and the path of the parent folder, "/" for *)
(* the vault's root.                                                       *)
Files ==
    { [path |-> <<"n">>, parent |-> <<"/">>],
      [path |-> <<"B", "/", "n">>, parent |-> <<"B">>],
      [path |-> <<"B", "/", "C", "/", "n">>, parent |-> <<"B", "/", "C">>] }

(* config.deck after validation: unset or a non-empty deck name.           *)
ConfigDecks == {Undefined, Some(<<"X">>), Some(<<"Y", ":", ":", "Z">>)}

DeckMapEntries ==
    [folder : {<<"B">>, <<"B", "/", "C">>}, deck : {<<"M">>, <<"N">>}]

InheritDeckValues == {Undefined, Some(TRUE), Some(FALSE)}

InitDeck ==
    /\ settings \in {[DefaultSettings EXCEPT !.inheritDeck = i, !.defaultDeckMaps = m] :
                        i \in InheritDeckValues, m \in SeqUpTo(DeckMapEntries, MaxMaps)}
    /\ fileCache = Undefined
    /\ note \in {[DefaultNote EXCEPT !.config.deck = d, !.file = f] :
                    d \in ConfigDecks, f \in Files}
    /\ call = "none"
    /\ arg = <<>>
    /\ ret = <<>>
    /\ cycles = 0

GetDeckName ==
    /\ call' = "getDeckName"
    /\ ret' = getDeckName(note, settings)
    /\ UNCHANGED <<settings, fileCache, note, arg, cycles>>

NextDeck == GetDeckName

SpecDeck == InitDeck /\ [][NextDeck]_vars

----------------------------------------------------------------------------
(* Claims about deck resolution, checked under SpecDeck.                   *)

(* C3: with inheritDeck exactly false getDeckName returns config.deck when *)
(* it is set, otherwise the deck the default-deck mappings give for the    *)
(* parent folder when there is one, otherwise fallbackDeck.                *)
C3_DeckWhenNotInherited ==
    (call = "getDeckName" /\ settings.inheritDeck = Some(FALSE)) =>
        LET mapped == getDefaultDeckForFolder(note.file.parent, settings.defaultDeckMaps)
        IN  /\ note.config.deck # Undefined => ret = note.config.deck[1]
            /\ (note.config.deck = Undefined /\ mapped # Undefined) => ret = mapped[1]
            /\ (note.config.deck = Undefined /\ mapped = Undefined) =>
                   ret = settings.fallbackDeck

(* A note without config.deck in a mapped folder got the folder's deck.    *)
C3_Witness ==
    /\ call = "getDeckName" /\ settings.inheritDeck = Some(FALSE)
    /\ note.config.deck = Undefined
    /\ note.file.parent = <<"B", "/", "C">>
    /\ Len(settings.defaultDeckMaps) = 2
    /\ settings.defaultDeckMaps[2] = [folder |-> <<"B", "/", "C">>, deck |-> <<"N">>]
    /\ settings.defaultDeckMaps[1].folder = <<"B">>
    /\ ret = <<"N">>

(* C4: with inheritDeck exactly true getDeckName returns fallbackDeck,     *)
(* '::' and the file's full path with every '/' turned into '::', whatever *)
(* config.deck and the mappings hold; notes of one file that differ only   *)
(* in config.deck get the same deck name.                                  *)
C4_DeckMirrorsPath ==
    (call = "getDeckName" /\ settings.inheritDeck = Some(TRUE)) =>
        LET n == Len(settings.fallbackDeck)
        IN  /\ Len(ret) >= n + 2
            /\ SubSeq(ret, 1, n) = settings.fallbackDeck
            /\ ret[n + 1] = ":" /\ ret[n + 2] = ":"
            /\ IsHierarchyOf(SubSeq(ret, n + 3, Len(ret)), note.file.path)
            /\ \A d \in ConfigDecks :
                 getDeckName([note EXCEPT !.config.deck = d], settings) = ret

(* The note has a deck of its own, its folder is mapped, and the path      *)
(* B/C/n under fallback deck D still gives D::B::C::n.                     *)
C4_Witness ==
    /\ call = "getDeckName" /\ settings.inheritDeck = Some(TRUE)
    /\ note.config.deck = Some(<<"X">>)
    /\ note.file.path = <<"B", "/", "C", "/", "n">>
    /\ getDefaultDeckForFolder(note.file.parent, settings.defaultDeckMaps) # Undefined
    /\ ret = <<"D", ":", ":", "B", ":", ":", "C", ":", ":", "n">>

----------------------------------------------------------------------------
(* Field mapping: NoteBase.fieldsToAnkiFields, normaliseNoteInfoFields and *)
(* getModelName                                                            *)

(* fields[slot] || '' : the empty string for an unset or empty slot.       *)
OrEmpty(slot) == IF slot = Undefined \/ slot[1] = "" THEN "" ELSE slot[1]

(* The same mapping without the isCloze branch.                            *)
fieldsToAnkiFieldsBasicOnly(n, fields) ==
    [Front |-> OrEmpty(fields.Frontlike), Back |-> OrEmpty(fields.Backlike)]

(* The same mapping without `|| ''`: an unset slot leaves its key out.     *)
fieldsToAnkiFieldsNoDefault(n, fields) ==
    LET front == IF n.isCloze THEN "Text" ELSE "Front"
        back == IF n.isCloze THEN "Back Extra" ELSE "Back"
        keys == (IF fields.Frontlike = Undefined THEN {} ELSE {front})
                    \cup (IF fields.Backlike = Undefined THEN {} ELSE {back})
    IN  [k \in keys |-> IF k = front THEN fields.Frontlike[1] ELSE fields.Backlike[1]]

fieldsToAnkiFields(n, fields) ==
    IF n.isCloze
    THEN ("Text" :> OrEmpty(fields.Frontlike)) @@ ("Back Extra" :> OrEmpty(fields.Backlike))
    ELSE ("Front" :> OrEmpty(fields.Frontlike)) @@ ("Back" :> OrEmpty(fields.Backlike))

(* Reading .value of a field the record does not have throws.              *)
TypeError == [threw |-> "TypeError"]

normaliseNoteInfoFields(noteInfo) ==
    LET isCloze == noteInfo.modelName = "Cloze"
        frontlike == IF isCloze THEN "Text" ELSE "Front"
        backlike == IF isCloze THEN "Back Extra" ELSE "Back"
    IN  IF {frontlike, backlike} \subseteq DOMAIN noteInfo.fields
        THEN [Frontlike |-> Some(noteInfo.fields[frontlike].value),
              Backlike |-> Some(noteInfo.fields[backlike].value)]
        ELSE TypeError

getModelName(n) == IF n.isCloze THEN "Cloze" ELSE "Basic"

FieldValues == {"", "q", "a"}

Slots == {Undefined} \cup {Some(v) : v \in FieldValues}

NoteFieldsValues == [Frontlike : Slots, Backlike : Slots]

(* The records notesInfo returns: the fields by name, each with its value  *)
(* and its place in the model.                                             *)
RemoteFields(front, back) ==
    {(front :> [value |-> f, order |-> 0]) @@ (back :> [value |-> b, order |-> 1]) :
        f \in FieldValues, b \in FieldValues}

BasicRecords == [modelName : {"Basic"}, fields : RemoteFields("Front", "Back")]

ClozeRecords == [modelName : {"Cloze"}, fields : RemoteFields("Text", "Back Extra")]

(* A record whose fields are not those its model name promises.            *)
MisshapenRecords == [modelName : {"Cloze"}, fields : RemoteFields("Front", "Back")]

NotesInfo == BasicRecords \cup ClozeRecords \cup MisshapenRecords

InitFields ==
    /\ settings = DefaultSettings
    /\ fileCache = Undefined
    /\ note \in {[DefaultNote EXCEPT !.isCloze = c] : c \in BOOLEAN}
    /\ call = "none"
    /\ arg = <<>>
    /\ ret = <<>>
    /\ cycles = 0

FieldsToAnkiFields ==
    \E fields \in NoteFieldsValues :
        /\ call' = "fieldsToAnkiFields"
        /\ arg' = [fields |-> fields, noteInfo |-> Undefined]
        /\ ret' = fieldsToAnkiFields(note, fields)
        /\ UNCHANGED <<settings, fileCache, note, cycles>>

NormaliseNoteInfoFields ==
    \E noteInfo \in NotesInfo :
        /\ call' = "normaliseNoteInfoFields"
        /\ arg' = noteInfo
        /\ ret' = normaliseNoteInfoFields(noteInfo)
        /\ UNCHANGED <<settings, fileCache, note, cycles>>

(* fieldsToAnkiFields(normaliseNoteInfoFields(R)): the fields just taken   *)
(* from the remote record R are mapped back.                               *)
FieldsToAnkiFieldsOfNormalised ==
    /\ call = "normaliseNoteInfoFields"
    /\ ret # TypeError
    /\ call' = "fieldsToAnkiFields"
    /\ arg' = [fields |-> ret, noteInfo |-> Some(arg)]
    /\ ret' = fieldsToAnkiFields(note, ret)
    /\ UNCHANGED <<settings, fileCache, note, cycles>>

GetModelName ==
    /\ call' = "getModelName"
    /\ arg' = <<>>
    /\ ret' = getModelName(note)
    /\ UNCHANGED <<settings, fileCache, note, cycles>>

NextFields ==
    \/ FieldsToAnkiFields
    \/ NormaliseNoteInfoFields
    \/ FieldsToAnkiFieldsOfNormalised
    \/ GetModelName

SpecFields == InitFields /\ [][NextFields]_vars

----------------------------------------------------------------------------
(* Claims about the field mapping, checked under SpecFields.               *)

(* The field names of Anki's two note types.                               *)
ModelFieldNames(modelName) ==
    IF modelName = "Cloze" THEN {"Text", "Back Extra"} ELSE {"Front", "Back"}

(* anki has the field names of the remote record r and the same values.    *)
SameFields(anki, r) ==
    /\ DOMAIN anki = DOMAIN r.fields
    /\ \A k \in DOMAIN anki : anki[k] = r.fields[k].value

RoundTripDone == call = "fieldsToAnkiFields" /\ arg.noteInfo # Undefined

(* C2: for a remote record R of model Basic or Cloze with the expected     *)
(* fields, and for any note, fieldsToAnkiFields(normaliseNoteInfoFields(R))*)
(* has the field names and the field values of R.                          *)
C2_RoundTrip == RoundTripDone => SameFields(ret, arg.noteInfo[1])

(* C2 as amended: the same, for a note whose isCloze agrees with the model *)
(* of R (isCloze true for 'Cloze', false for 'Basic').                     *)
C2_RoundTripWhenModelsAgree ==
    (RoundTripDone /\ note.isCloze = (arg.noteInfo[1].modelName = "Cloze")) =>
        SameFields(ret, arg.noteInfo[1])

(* A Cloze record with a text and an empty extra went through a cloze note.*)
C2_Witness ==
    /\ RoundTripDone /\ note.isCloze
    /\ arg.noteInfo[1].modelName = "Cloze"
    /\ arg.noteInfo[1].fields["Text"].value = "q"
    /\ arg.noteInfo[1].fields["Back Extra"].value = ""
    /\ ret["Text"] = "q" /\ ret["Back Extra"] = ""

(* C10: fieldsToAnkiFields returns exactly two keys, each with a string:   *)
(* Text and Back Extra when isCloze, Front and Back otherwise; an unset or *)
(* empty slot gives the empty string; the keys are those of the model      *)
(* getModelName names, which is 'Cloze' iff isCloze.                       *)
C10_TwoKeysAlways ==
    call = "fieldsToAnkiFields" =>
        LET front == IF note.isCloze THEN "Text" ELSE "Front"
            back == IF note.isCloze THEN "Back Extra" ELSE "Back"
            Empty(slot) == slot = Undefined \/ slot = Some("")
        IN  /\ DOMAIN ret = {front, back}
            /\ Cardinality(DOMAIN ret) = 2
            /\ \A k \in DOMAIN ret : ret[k] \in FieldValues
            /\ Empty(arg.fields.Frontlike) => ret[front] = ""
            /\ Empty(arg.fields.Backlike) => ret[back] = ""
            /\ ~Empty(arg.fields.Frontlike) => ret[front] = arg.fields.Frontlike[1]
            /\ ~Empty(arg.fields.Backlike) => ret[back] = arg.fields.Backlike[1]
            /\ DOMAIN ret = ModelFieldNames(getModelName(note))
            /\ (getModelName(note) = "Cloze") <=> note.isCloze

(* A cloze note with no back slot got both of Cloze's keys.                *)
C10_Witness ==
    /\ call = "fieldsToAnkiFields" /\ note.isCloze
    /\ arg.fields = [Frontlike |-> Some("q"), Backlike |-> Undefined]
    /\ ret = ("Text" :> "q") @@ ("Back Extra" :> "")

----------------------------------------------------------------------------
(* Rendering and the file-rewrite decision: NoteBase.renderAsText,         *)
(* shouldUpdateFile and getEnabled                                         *)

(* Blueprint.renderAsText(note) of blueprints/base: the canonical text of  *)
(* the note, the same for the same id, fields, config and isCloze. A text  *)
(* is modelled by what it says and by its layout.                          *)
blueprintRenderAsText(n) ==
    [id |-> n.id, fields |-> n.fields, config |-> n.config, isCloze |-> n.isCloze,
     layout |-> "canonical"]

renderAsText(n) == blueprintRenderAsText(n)

(* `config.enabled === true` alone: an unset flag counts as disabled.      *)
getEnabledStrict(n) == n.config.enabled = Some(TRUE)

getEnabled(n) == n.config.enabled = Undefined \/ n.config.enabled[1]

(* The decision without the comparison of the texts.                       *)
shouldUpdateFileWheneverEnabled(n) == getEnabled(n)

shouldUpdateFile(n) == getEnabled(n) /\ renderAsText(n) # n.sourceText

EnabledValues == {Undefined, Some(TRUE), Some(FALSE)}

IdValues == {Undefined, Some(1)}

UpdateFields == [Frontlike : {Some("q"), Some("a")}, Backlike : {Some(""), Some("a")}]

(* A freshly parsed note: its text is the canonical one or says the same   *)
(* in the author's own layout.                                             *)
ParsedNotes ==
    {[n EXCEPT !.sourceText = [renderAsText(n) EXCEPT !.layout = l]] :
        n \in {[DefaultNote EXCEPT !.id = i, !.fields = f, !.config.enabled = e] :
                  i \in IdValues, f \in UpdateFields, e \in EnabledValues},
        l \in {"canonical", "authored"}}

InitUpdate ==
    /\ settings = DefaultSettings
    /\ fileCache = Undefined
    /\ note \in ParsedNotes
    /\ call = "none"
    /\ arg = <<>>
    /\ ret = <<>>
    /\ cycles = 0

(* The caller replaces the fields with those of the remote record.         *)
ReplaceFields ==
    \E f \in UpdateFields :
        /\ f # note.fields
        /\ note' = [note EXCEPT !.fields = f]
        /\ call' = "replaceFields"
        /\ cycles' = 0
        /\ UNCHANGED <<settings, fileCache, arg, ret>>

(* The caller records the id the remote store gave the note.               *)
ReplaceId ==
    \E i \in IdValues :
        /\ i # note.id
        /\ note' = [note EXCEPT !.id = i]
        /\ call' = "replaceId"
        /\ cycles' = 0
        /\ UNCHANGED <<settings, fileCache, arg, ret>>

ReplaceConfig ==
    \E e \in EnabledValues :
        /\ e # note.config.enabled
        /\ note' = [note EXCEPT !.config.enabled = e]
        /\ call' = "replaceConfig"
        /\ cycles' = 0
        /\ UNCHANGED <<settings, fileCache, arg, ret>>

(* A render-and-save cycle: the rendered text is written to the file and   *)
(* is the note's source text from then on. cycles counts the cycles since  *)
(* fields, config or id last changed.                                      *)
RenderAndSave ==
    /\ cycles < MaxCycles
    /\ note' = [note EXCEPT !.sourceText = renderAsText(note)]
    /\ call' = "renderAndSave"
    /\ cycles' = cycles + 1
    /\ UNCHANGED <<settings, fileCache, arg, ret>>

ShouldUpdateFile ==
    /\ call' = "shouldUpdateFile"
    /\ ret' = shouldUpdateFile(note)
    /\ UNCHANGED <<settings, fileCache, note, arg, cycles>>

GetEnabled ==
    /\ call' = "getEnabled"
    /\ ret' = getEnabled(note)
    /\ UNCHANGED <<settings, fileCache, note, arg, cycles>>

NextUpdate ==
    \/ ReplaceFields
    \/ ReplaceId
    \/ ReplaceConfig
    \/ RenderAndSave
    \/ ShouldUpdateFile
    \/ GetEnabled

SpecUpdate == InitUpdate /\ [][NextUpdate]_vars

----------------------------------------------------------------------------
(* Claims about the file-rewrite decision, checked under SpecUpdate.       *)

(* C6: shouldUpdateFile() is true exactly when config.enabled is unset or  *)
(* true and renderAsText() differs from sourceText; a note with            *)
(* config.enabled false never asks for a rewrite.                          *)
C6_UpdateIffEnabledAndChanged ==
    call = "shouldUpdateFile" =>
        /\ ret = TRUE <=>
             /\ note.config.enabled \in {Undefined, Some(TRUE)}
             /\ renderAsText(note) # note.sourceText
        /\ note.config.enabled = Some(FALSE) => ret = FALSE

(* A disabled note whose rendered text differs from its source text was    *)
(* asked and said no.                                                      *)
C6_Witness ==
    /\ call = "shouldUpdateFile"
    /\ note.config.enabled = Some(FALSE)
    /\ renderAsText(note) # note.sourceText
    /\ ret = FALSE

(* C7: after a render-and-save cycle with fields, config and id unchanged  *)
(* since, shouldUpdateFile() is false, and it is still false after any     *)
(* number of further cycles.                                               *)
C7_NoRewriteAfterSave ==
    cycles >= 1 =>
        /\ ~shouldUpdateFile(note)
        /\ call = "shouldUpdateFile" => ret = FALSE

(* An enabled note authored in its own layout went through MaxCycles       *)
(* cycles and was then asked.                                              *)
C7_Witness ==
    /\ cycles = MaxCycles
    /\ call = "shouldUpdateFile"
    /\ getEnabled(note)
    /\ ret = FALSE

----------------------------------------------------------------------------
(* Configuration parsing: ParseConfig.fromResult and ParseConfigSchema     *)
(*                                                                         *)
(* A configuration text is the sequence of its lines, a line the sequence  *)
(* of its tokens: <<key, ":", scalar>> or <<key, ":">> for an entry of a   *)
(* mapping, <<"-", scalar>> for an item of a sequence, <<scalar>> for a    *)
(* document that is one scalar. A JavaScript value is [t |-> its type,     *)
(* v |-> its content].                                                     *)

Val(t, v) == [t |-> t, v |-> v]

UndefinedVal == Val("undefined", "")

NullVal == Val("null", "")

(* js-yaml's resolution of a plain or quoted scalar (core schema).         *)
ResolveScalar(tok) ==
    CASE tok \in {"0", "5"} -> Val("number", tok)
      [] tok \in {"true", "false"} -> Val("boolean", tok)
      [] tok \in {"~", "null"} -> NullVal
      [] tok = "''" -> Val("string", "")
      [] tok = "[a]" -> Val("sequence", <<"a">>)
      [] OTHER -> Val("string", tok)

IsEntry(line) == Len(line) \in {2, 3} /\ line[2] = ":" /\ line[1] \notin {"-", ":", "["}

IsItem(line) == Len(line) = 2 /\ line[1] = "-" /\ line[2] \notin {"-", ":", "["}

IsScalarLine(line) == Len(line) = 1 /\ line[1] \notin {"-", ":", "["}

YAMLException == [ok |-> FALSE, error |-> "YAMLException"]

(* load(text) of js-yaml: undefined for an empty text, the value of the    *)
(* one document otherwise; throws on a text that is no YAML document and   *)
(* on a mapping that names a key twice.                                    *)
load(text) ==
    IF text = <<>> THEN [ok |-> TRUE, value |-> UndefinedVal]
    ELSE IF \A i \in 1..Len(text) : IsEntry(text[i])
    THEN IF \E i, j \in 1..Len(text) : i # j /\ text[i][1] = text[j][1]
         THEN YAMLException
         ELSE LET keys == {text[i][1] : i \in 1..Len(text)}
                  LineOf(k) == CHOOSE i \in 1..Len(text) : text[i][1] = k
                  ValueOf(k) == IF Len(text[LineOf(k)]) = 2 THEN NullVal
                                ELSE ResolveScalar(text[LineOf(k)][3])
              IN  [ok |-> TRUE, value |-> Val("object", [k \in keys |-> ValueOf(k)])]
    ELSE IF \A i \in 1..Len(text) : IsItem(text[i])
    THEN [ok |-> TRUE, value |-> Val("sequence", [i \in 1..Len(text) |-> text[i][2]])]
    ELSE IF Len(text) = 1 /\ IsScalarLine(text[1])
    THEN [ok |-> TRUE, value |-> ResolveScalar(text[1][1])]
    ELSE YAMLException

(* What `x || y` takes for false: undefined, null, 0, false and ''.        *)
Falsy(x) ==
    \/ x.t \in {"undefined", "null"}
    \/ x.t = "number" /\ x.v = "0"
    \/ x.t = "boolean" /\ x.v = "false"
    \/ x.t = "string" /\ x.v = ""

Invalid == Val("invalid", "")

(* id: yup.number().nullable().defined().default(null)                     *)
CastId(x) ==
    CASE x.t = "undefined" -> NullVal
      [] x.t \in {"null", "number"} -> x
      [] OTHER -> Invalid

(* deck: yup.string().emptyAsUndefined().nullAsUndefined()                 *)
CastDeck(x) ==
    CASE x.t \in {"undefined", "null"} -> UndefinedVal
      [] x.t = "string" -> IF x.v = "" THEN UndefinedVal ELSE x
      [] x.t \in {"number", "boolean"} -> Val("string", x.v)
      [] OTHER -> Invalid

(* tags: yup.array().of(yup.string()).notRequired()                        *)
CastTags(x) ==
    CASE x.t \in {"undefined", "sequence"} -> x
      [] OTHER -> Invalid

(* delete, enabled, cloze: yup.boolean().nullAsUndefined()                 *)
CastFlag(x) ==
    CASE x.t \in {"undefined", "null"} -> UndefinedVal
      [] x.t = "boolean" -> x
      [] OTHER -> Invalid

SchemaKeys == {"id", "deck", "tags", "delete", "enabled", "cloze"}

CastField(k, x) ==
    CASE k = "id" -> CastId(x)
      [] k = "deck" -> CastDeck(x)
      [] k = "tags" -> CastTags(x)
      [] k \in {"delete", "enabled", "cloze"} -> CastFlag(x)
      [] OTHER -> x

ValidationError == [ok |-> FALSE, error |-> "ValidationError"]

(* ParseConfigSchema.validate(configObj): an object whose fields all cast  *)
(* to their types, with the schema's defaults; keys the schema does not    *)
(* name are kept.                                                          *)
ParseConfigSchemaValidate(configObj) ==
    IF configObj.t # "object" THEN ValidationError
    ELSE LET Raw(k) == IF k \in DOMAIN configObj.v THEN configObj.v[k] ELSE UndefinedVal
             cast == [k \in SchemaKeys \cup DOMAIN configObj.v |-> CastField(k, Raw(k))]
         IN  IF \E k \in DOMAIN cast : cast[k] = Invalid
             THEN ValidationError
             ELSE [ok |-> TRUE, config |-> cast]

fromResult(result) ==
    LET configStr == IF result.config = Undefined THEN <<>> ELSE result.config[1]
        loaded == load(configStr)
    IN  IF ~loaded.ok THEN YAMLException
        ELSE LET configObj == IF Falsy(loaded.value)
                              THEN Val("object", [k \in {"id"} |-> NullVal])
                              ELSE loaded.value
             IN  ParseConfigSchemaValidate(configObj)

(* The lines configuration blocks are built from.                          *)
EntryLines ==
    { <<"id", ":", "5">>, <<"id", ":", "abc">>, <<"id", ":">>,
      <<"deck", ":", "abc">>, <<"deck", ":", "''">>, <<"deck", ":", "[a]">>,
      <<"tags", ":", "[a]">>, <<"tags", ":", "abc">>,
      <<"enabled", ":", "false">>, <<"enabled", ":", "abc">>, <<"enabled", ":">>,
      <<"cloze", ":", "true">>, <<"note", ":", "abc">> }

ScalarTexts ==
    { << <<tok>> >> : tok \in {"0", "5", "true", "false", "abc", "''", "~", "[a]"} }

SequenceTexts == { << <<"-", "abc">> >>, << <<"-", "abc">>, <<"-", "5">> >> }

(* Texts that are no YAML: an unclosed flow sequence, an entry after a     *)
(* scalar.                                                                 *)
MalformedTexts == { << <<"[">> >>, << <<"abc">>, <<"id", ":", "5">> >> }

ConfigTexts ==
    SeqUpTo(EntryLines, MaxEntries) \cup ScalarTexts \cup SequenceTexts \cup MalformedTexts

ParseNoteResults ==
    [type : {"note"}, config : {Undefined} \cup {Some(t) : t \in ConfigTexts},
     front : {Some("q")}, back : {Some("a")}]

InitConfig ==
    /\ settings = DefaultSettings
    /\ fileCache = Undefined
    /\ note = DefaultNote
    /\ call = "none"
    /\ arg = <<>>
    /\ ret = <<>>
    /\ cycles = 0

FromResult ==
    \E result \in ParseNoteResults :
        /\ call' = "fromResult"
        /\ arg' = result
        /\ ret' = fromResult(result)
        /\ UNCHANGED <<settings, fileCache, note, cycles>>

NextConfig == FromResult

SpecConfig == InitConfig /\ [][NextConfig]_vars

----------------------------------------------------------------------------
(* Claims about configuration parsing, checked under SpecConfig.           *)

(* The text is there, is not empty and does not just say null.             *)
NonEmptyText ==
    /\ arg.config # Undefined
    /\ arg.config[1] # <<>>
    /\ load(arg.config[1]).ok => load(arg.config[1]).value.t # "null"

DeserializesAsMapping ==
    /\ arg.config # Undefined
    /\ load(arg.config[1]).ok
    /\ load(arg.config[1]).value.t = "object"

(* The expected shape of each field of the schema.                         *)
WellShaped(k, x) ==
    CASE k = "id" -> x.t \in {"number", "null"}
      [] k = "deck" -> x.t \in {"string", "null"}
      [] k = "tags" -> x.t = "sequence"
      [] k \in {"delete", "enabled", "cloze"} -> x.t \in {"boolean", "null"}
      [] OTHER -> TRUE

(* C8: fromResult fails for every non-empty config text that does not      *)
(* deserialize as a mapping and for every mapping with a field of the      *)
(* wrong shape; it returns a ParseConfig only for a null or empty text or  *)
(* a mapping that satisfies the schema.                                    *)
C8_FailsUnlessMapping ==
    call = "fromResult" =>
        /\ (NonEmptyText /\ ~DeserializesAsMapping) => ~ret.ok
        /\ (NonEmptyText /\ DeserializesAsMapping) =>
             LET obj == load(arg.config[1]).value.v
             IN  ret.ok <=> \A k \in DOMAIN obj : WellShaped(k, obj[k])
        /\ ~NonEmptyText => ret.ok

====
